---- MODULE Spec2Model ----
(***************************************************************************)
(* Model of the socket-summary tools of sockets_bytecode:                  *)
(*   warm_info/info_sock.py        SocketMonitor.get_summary and           *)
(*                                 SocketMonitor._parse_summary            *)
(*   extended/di_extended_beta1.py main, get_socket_stats, execute_command,*)
(*                                 find_ss_binary, parse_socket_output     *)
(*                                                                         *)
(* A Python str is a sequence of one-character strings.  A Python value is *)
(* a tagged record [t, v]: t = "int" (v a number), t = "str" (v a          *)
(* sequence of characters), t = "map" (v a function from keys to values),  *)
(* t = "none" (None).  A dict is a function whose domain is its key set.   *)
(***************************************************************************)
EXTENDS Integers, Sequences, FiniteSets, TLC

VARIABLES
    lines,            \* output.splitlines(): the lines the loop iterates over
    idx,              \* position of the for loop: index of the next line
    parsed,           \* the dict under construction
    current_section,  \* _parse_summary's current_section (None or a str)
    pc,               \* "loop" | "done" | "error" (an exception left the parser)
    exc,              \* the exception that left the parser, "" when none
    prog,             \* the entry point of the run
    platform,         \* sys.platform.lower()
    fs,               \* the file system: state of each path of interest
    arg_type,         \* main: the value of -t/--type, "None" when absent
    socket_type,      \* get_socket_stats: the socket_type argument
    json_output,      \* get_summary: the json_output argument
    rpc,              \* position of the runner
    cmd,              \* the argument list handed to subprocess.run
    spawned,          \* number of child processes started during the call
    child,            \* "none" | "running" | "zombie" | "reaped"
    returncode,       \* exit status of the child
    stdout,           \* text the child wrote to its standard output
    timer,            \* "idle" | "armed" | "expired": the timeout of the run
    runres,           \* how subprocess.run ended: "completed" or an exception
    result            \* how the call ended: returned value or raised exception

pvars == <<lines, idx, parsed, current_section, pc, exc>>

rvars == <<prog, platform, fs, arg_type, socket_type, json_output, rpc, cmd,
           spawned, child, returncode, stdout, timer, runres, result>>

vars == <<pvars, rvars>>

----------------------------------------------------------------------------
(* Bounds of the enumerated inputs. *)

MaxTextLen == 6

----------------------------------------------------------------------------
(* Characters and Python str methods. *)

DecimalDigits == {"0", "1", "2", "3", "4", "5", "6", "7", "8", "9"}

\* "sup2" stands for U+00B2 SUPERSCRIPT TWO: str.isdigit() is True for it,
\* int() raises ValueError on it, and \d does not match it.
IsDigitChars == DecimalDigits \cup {"sup2"}

Whitespace == {" ", "\t"}

LineBreaks == {"\n"}

DigitValue(c) ==
    CASE c = "0" -> 0 [] c = "1" -> 1 [] c = "2" -> 2 [] c = "3" -> 3
      [] c = "4" -> 4 [] c = "5" -> 5 [] c = "6" -> 6 [] c = "7" -> 7
      [] c = "8" -> 8 [] c = "9" -> 9

RECURSIVE LStrip(_)
LStrip(s) ==
    IF s # <<>> /\ Head(s) \in Whitespace \cup LineBreaks THEN LStrip(Tail(s)) ELSE s

RECURSIVE RStrip(_)
RStrip(s) ==
    IF s # <<>> /\ s[Len(s)] \in Whitespace \cup LineBreaks
    THEN RStrip(SubSeq(s, 1, Len(s) - 1))
    ELSE s

\* str.strip()
Strip(s) == RStrip(LStrip(s))

\* str.splitlines(): break at every line break, no empty last line after a
\* trailing break.
RECURSIVE SplitLinesFrom(_, _, _)
SplitLinesFrom(text, k, cur) ==
    IF k > Len(text)
    THEN IF cur = <<>> THEN <<>> ELSE <<cur>>
    ELSE IF text[k] \in LineBreaks
         THEN <<cur>> \o SplitLinesFrom(text, k + 1, <<>>)
         ELSE SplitLinesFrom(text, k + 1, Append(cur, text[k]))

SplitLines(text) == SplitLinesFrom(text, 1, <<>>)

\* str.isdigit(): non-empty and every character a digit character.
IsDigit(s) == s # <<>> /\ \A k \in 1..Len(s) : s[k] \in IsDigitChars

\* int(s) succeeds on a digit string exactly when every character is decimal.
IntParses(s) == s # <<>> /\ \A k \in 1..Len(s) : s[k] \in DecimalDigits

RECURSIVE IntOf(_)
IntOf(s) ==
    IF s = <<>> THEN 0
    ELSE 10 * IntOf(SubSeq(s, 1, Len(s) - 1)) + DigitValue(s[Len(s)])

\* The longest prefix of s made of decimal digits.
DigitPrefix(s) ==
    LET ns == {n \in 0..Len(s) : \A k \in 1..n : s[k] \in DecimalDigits}
    IN SubSeq(s, 1, CHOOSE n \in ns : \A q \in ns : q <= n)

HasColon(s) == \E k \in 1..Len(s) : s[k] = ":"

FirstColon(s) ==
    CHOOSE k \in 1..Len(s) : s[k] = ":" /\ \A j \in 1..(k - 1) : s[j] # ":"

----------------------------------------------------------------------------
(* Python values and dicts. *)

NoneV == [t |-> "none", v |-> <<>>]

IntV(n) == [t |-> "int", v |-> n]

StrV(s) == [t |-> "str", v |-> s]

MapV(m) == [t |-> "map", v |-> m]

EmptyDict == [k \in {} |-> NoneV]

\* d[k] = x
Put(d, k, x) == [j \in (DOMAIN d) \cup {k} |-> IF j = k THEN x ELSE d[j]]

----------------------------------------------------------------------------
(* SocketMonitor._parse_summary, src/warm_info/info_sock.py:75-101 *)

\* line.endswith(':')
IsHeader(line) == line # <<>> /\ line[Len(line)] = ":"

\* line[:-1]
SectionName(line) == SubSeq(line, 1, Len(line) - 1)

\* Variant: parsed.setdefault(current_section, {}) keeps an entry already there.
OpenSectionKeepsEntry(d, name) ==
    IF name \in DOMAIN d THEN d ELSE Put(d, name, MapV(EmptyDict))

\* parsed[current_section] = {}
OpenSection(d, name) == Put(d, name, MapV(EmptyDict))

\* ':' in line
IsKeyValue(line) == HasColon(line)

\* key, val = [part.strip() for part in line.split(':', 1)]
SplitKey(line) == Strip(SubSeq(line, 1, FirstColon(line) - 1))

SplitVal(line) == Strip(SubSeq(line, FirstColon(line) + 1, Len(line)))

\* Variant: the value is converted as soon as it starts with digits.
CoerceLeadingDigits(val) ==
    IF DigitPrefix(val) # <<>> THEN IntV(IntOf(DigitPrefix(val))) ELSE StrV(val)

\* try: val = int(val) if val.isdigit() else val
\* except (ValueError, AttributeError): pass
Coerce(val) ==
    IF IsDigit(val)
    THEN IF IntParses(val) THEN IntV(IntOf(val)) ELSE StrV(val)
    ELSE StrV(val)

\* if current_section:   (None and "" are both falsy)
Truthy(cur) == cur.t = "str" /\ cur.v # <<>>

\* Variant: the entry is written to the top level although a section is open.
StoreNestedAtTopLevel(d, cur, key, val) == [parsed |-> Put(d, key, val), exc |-> ""]

\* parsed[current_section][key] = val: KeyError when the section is no key of
\* parsed, TypeError when the entry is an int or a str.
StoreNested(d, cur, key, val) ==
    IF cur.v \notin DOMAIN d
    THEN [parsed |-> d, exc |-> "KeyError"]
    ELSE IF d[cur.v].t # "map"
         THEN [parsed |-> d, exc |-> "TypeError"]
         ELSE [parsed |-> Put(d, cur.v, MapV(Put(d[cur.v].v, key, val))), exc |-> ""]

\* Variant: parsed.setdefault(key, val) keeps the first value of a key.
StoreTopFirstWins(d, key, val) ==
    [parsed |-> IF key \in DOMAIN d THEN d ELSE Put(d, key, val), exc |-> ""]

\* parsed[key] = val
StoreTop(d, key, val) == [parsed |-> Put(d, key, val), exc |-> ""]

\* One iteration of the for loop, lines 81-99.
SummaryLine(d, cur, rawline) ==
    LET line == Strip(rawline) IN
    IF IsHeader(line)
    THEN [parsed |-> OpenSection(d, SectionName(line)),
          cur |-> StrV(SectionName(line)), exc |-> ""]
    ELSE IF IsKeyValue(line)
         THEN LET key == SplitKey(line)
                  val == Coerce(SplitVal(line))
                  r == IF Truthy(cur) THEN StoreNested(d, cur, key, val)
                       ELSE StoreTop(d, key, val)
              IN [parsed |-> r.parsed, cur |-> cur, exc |-> r.exc]
         ELSE [parsed |-> d, cur |-> cur, exc |-> ""]

----------------------------------------------------------------------------
(* parse_socket_output, src/extended/di_extended_beta1.py:85-101 *)

Punctuation == {":", "(", ")", ","}

\* Character classes of the re module: \w, \s and \d on str patterns.
InClass(c, cls) ==
    CASE cls = "w" -> c \notin Whitespace \cup LineBreaks \cup Punctuation
      [] cls = "s" -> c \in Whitespace \cup LineBreaks
      [] cls = "d" -> c \in DecimalDigits

\* Length of the longest run of characters of a class starting at position p:
\* what a greedy cls+ or cls* consumes there.
RECURSIVE RunLen(_, _, _)
RunLen(s, p, cls) ==
    IF p <= Len(s) /\ InClass(s[p], cls) THEN 1 + RunLen(s, p + 1, cls) ELSE 0

\* re.match(r"(\w+)\s*:\s*(.+)", line): the groups (key, value), anchored at
\* the start of the untrimmed line.  When only whitespace follows the colon,
\* \s* gives back its last character to (.+).
MatchKeyValue(line) ==
    LET w == RunLen(line, 1, "w")
        c == w + RunLen(line, w + 1, "s") + 1
        s2 == RunLen(line, c + 1, "s")
        r == c + 1 + s2
    IN IF w = 0 \/ c > Len(line) \/ line[c] # ":"
       THEN [ok |-> FALSE, key |-> <<>>, value |-> <<>>]
       ELSE IF r <= Len(line)
            THEN [ok |-> TRUE, key |-> SubSeq(line, 1, w),
                  value |-> SubSeq(line, r, Len(line))]
            ELSE IF s2 >= 1
                 THEN [ok |-> TRUE, key |-> SubSeq(line, 1, w),
                       value |-> <<line[Len(line)]>>]
                 ELSE [ok |-> FALSE, key |-> <<>>, value |-> <<>>]

\* Variant: the strict rule of _parse_summary, an integer only for all digits.
LeadingNumberStrict(value) == Coerce(Strip(value))

\* re.match(r"^(\d+)", value.strip()) and int(num_match.group(1))
LeadingNumber(value) ==
    LET v == Strip(value)
        d == RunLen(v, 1, "d")
    IN IF d >= 1 THEN IntV(IntOf(SubSeq(v, 1, d))) ELSE StrV(v)

\* re.findall(r"(\w+\s\d+)", value) followed by item.split(): the sequence of
\* (word, digits) pairs of the non-overlapping matches, leftmost first.
RECURSIVE FindDetails(_, _)
FindDetails(value, p) ==
    IF p > Len(value) THEN <<>>
    ELSE LET w == RunLen(value, p, "w")
             d == RunLen(value, p + w + 1, "d")
         IN IF /\ w >= 1
               /\ p + w <= Len(value)
               /\ InClass(value[p + w], "s")
               /\ d >= 1
            THEN <<[word |-> SubSeq(value, p, p + w - 1),
                    digits |-> SubSeq(value, p + w + 1, p + w + d)]>>
                 \o FindDetails(value, p + w + 1 + d)
            ELSE FindDetails(value, p + 1)

\* dict(item.split() for item in extra): later pairs overwrite earlier ones.
RECURSIVE DetailsDict(_)
DetailsDict(extra) ==
    IF extra = <<>> THEN EmptyDict
    ELSE LET item == extra[Len(extra)]
         IN Put(DetailsDict(SubSeq(extra, 1, Len(extra) - 1)),
                item.word, StrV(item.digits))

\* f"{key}_details"
DetailsKey(key) == key \o <<"_", "d", "e", "t", "a", "i", "l", "s">>

\* One iteration of the for loop, lines 89-100.
OutputLine(d, line) ==
    LET m == MatchKeyValue(line) IN
    IF ~m.ok THEN d
    ELSE LET stored == LeadingNumber(m.value)
             extra == FindDetails(m.value, 1)
         IN IF stored.t = "int" /\ extra # <<>>
            THEN Put(Put(d, m.key, stored), DetailsKey(m.key), MapV(DetailsDict(extra)))
            ELSE Put(d, m.key, stored)

----------------------------------------------------------------------------
(* Inputs: every text of at most MaxTextLen characters over Alphabet, and    *)
(* the texts of the documented scenarios.                                    *)

Alphabet == {":", "1", "a", " ", "\n"}

RECURSIVE TextsUpTo(_)
TextsUpTo(n) ==
    IF n = 0 THEN {<<>>}
    ELSE LET shorter == TextsUpTo(n - 1)
         IN shorter \cup {Append(s, c) : s \in shorter, c \in Alphabet}

\* "Total: 193\nTCP:\n\tEstab 10\nUDP: 5\n"
TextSectioned ==
    <<"T", "o", "t", "a", "l", ":", " ", "1", "9", "3", "\n",
      "T", "C", "P", ":", "\n",
      "\t", "E", "s", "t", "a", "b", " ", "1", "0", "\n",
      "U", "D", "P", ":", " ", "5", "\n">>

\* "45 (estab 30, closed 10)"
ValueDetail ==
    <<"4", "5", " ", "(", "e", "s", "t", "a", "b", " ", "3", "0", ",", " ",
      "c", "l", "o", "s", "e", "d", " ", "1", "0", ")">>

\* "TCP: 45 (estab 30, closed 10)"
TextDetail == <<"T", "C", "P", ":", " ">> \o ValueDetail

\* "a:1\na:2\na:"
TextShadowed == <<"a", ":", "1", "\n", "a", ":", "2", "\n", "a", ":">>

\* "Key: a:"
TextTwoColons == <<"K", "e", "y", ":", " ", "a", ":">>

\* "a: 7\u00b2" and "a: \u00b2"
TextSuperscript == <<"a", ":", " ", "7", "sup2", "\n", "a", ":", " ", "sup2">>

\* "X: 1\nX:\nK: 2\nX: 3"
TextKeyIsSection ==
    <<"X", ":", " ", "1", "\n", "X", ":", "\n", "K", ":", " ", "2", "\n",
      "X", ":", " ", "3">>

\* "S:\nk: b\nS:\nk: 1\nk: 007"
TextRepeated ==
    <<"S", ":", "\n", "k", ":", " ", "b", "\n", "S", ":", "\n",
      "k", ":", " ", "1", "\n", "k", ":", " ", "0", "0", "7">>

\* "a: 1 2\nb 1: 2\n c: 3\nd:  \ne_1 : x 9 y 8"
TextRegex ==
    <<"a", ":", " ", "1", " ", "2", "\n", "b", " ", "1", ":", " ", "2", "\n",
      " ", "c", ":", " ", "3", "\n", "d", ":", " ", " ", "\n",
      "e", "_", "1", " ", ":", " ", "x", " ", "9", " ", "y", " ", "8">>

ScenarioTexts ==
    {TextSectioned, TextDetail, TextShadowed, TextTwoColons, TextSuperscript,
     TextKeyIsSection, TextRepeated, TextRegex}

Inputs == {SplitLines(t) : t \in TextsUpTo(MaxTextLen) \cup ScenarioTexts}

----------------------------------------------------------------------------
(* _parse_summary as a state machine: one step per loop iteration. *)

NoResult == [kind |-> "none", value |-> "", data |-> EmptyDict]

\* The runner's variables while only a parser is exercised.
RunnerIdle ==
    /\ prog = "parser"
    /\ platform = "linux"
    /\ fs = [p \in {} |-> "absent"]
    /\ arg_type = "None"
    /\ socket_type = "None"
    /\ json_output = FALSE
    /\ rpc = "idle"
    /\ cmd = <<>>
    /\ spawned = 0
    /\ child = "none"
    /\ returncode = 0
    /\ stdout = <<>>
    /\ timer = "idle"
    /\ runres = ""
    /\ result = NoResult

InitSummary ==
    /\ lines \in Inputs
    /\ idx = 1
    /\ parsed = EmptyDict
    /\ current_section = NoneV
    /\ pc = "loop"
    /\ exc = ""
    /\ RunnerIdle

ParseSummaryStep ==
    /\ pc = "loop"
    /\ idx <= Len(lines)
    /\ LET r == SummaryLine(parsed, current_section, lines[idx])
       IN /\ parsed' = r.parsed
          /\ current_section' = r.cur
          /\ exc' = r.exc
          /\ pc' = IF r.exc = "" THEN "loop" ELSE "error"
    /\ idx' = idx + 1
    /\ UNCHANGED <<lines, rvars>>

ParseSummaryReturn ==
    /\ pc = "loop"
    /\ idx > Len(lines)
    /\ pc' = "done"
    /\ UNCHANGED <<lines, idx, parsed, current_section, exc, rvars>>

NextSummary == ParseSummaryStep \/ ParseSummaryReturn

SpecSummary == InitSummary /\ [][NextSummary]_vars

----------------------------------------------------------------------------
(* Vocabulary of the properties of _parse_summary. *)

\* The line the last loop iteration processed, trimmed.
Processed == Strip(lines[idx - 1])

\* A line the loop treats as a key/value line.
IsKeyValueLine(l) == ~IsHeader(l) /\ HasColon(l)

ColonCount(l) == Cardinality({k \in 1..Len(l) : l[k] = ":"})

OnlyDecimalDigits(s) == s # <<>> /\ \A k \in 1..Len(s) : s[k] \in DecimalDigits

RECURSIVE Pow10(_)
Pow10(n) == IF n = 0 THEN 1 ELSE 10 * Pow10(n - 1)

RECURSIVE PlaceValueSum(_, _)
PlaceValueSum(s, k) ==
    IF k > Len(s) THEN 0
    ELSE DigitValue(s[k]) * Pow10(Len(s) - k) + PlaceValueSum(s, k + 1)

\* The number a sequence of decimal digits denotes.
DecimalNumber(s) == PlaceValueSum(s, 1)

\* Index of the last header line among the first j lines, 0 when there is none.
LastHeader(j) ==
    LET hs == {h \in 1..j : IsHeader(Strip(lines[h]))}
    IN IF hs = {} THEN 0 ELSE CHOOSE h \in hs : \A g \in hs : g <= h

One(k, x) == Put(EmptyDict, k, x)

KeyTotal == <<"T", "o", "t", "a", "l">>

KeyTCP == <<"T", "C", "P">>

KeyUDP == <<"U", "D", "P">>

KeyEstab == <<"E", "s", "t", "a", "b">>

----------------------------------------------------------------------------
(* C1 *)

\* C1 as stated: the four-line sectioned input parses to
\* {"Total": 193, "TCP": {"Estab": 10}, "UDP": 5}.
C1_SectionedScenarioAsStated ==
    (lines = SplitLines(TextSectioned) /\ pc = "done") =>
        parsed = Put(Put(One(KeyTotal, IntV(193)),
                         KeyTCP, MapV(One(KeyEstab, IntV(10)))),
                     KeyUDP, IntV(5))

\* C1 amended: the four-line sectioned input parses to
\* {"Total": 193, "TCP": {"UDP": 5}}: the colon-free line "<tab>Estab 10" adds
\* nothing and "UDP: 5" is stored inside the open TCP section.
C1_SectionedScenario ==
    (lines = SplitLines(TextSectioned) /\ pc = "done") =>
        parsed = Put(One(KeyTotal, IntV(193)), KeyTCP, MapV(One(KeyUDP, IntV(5))))

C1_Witness == lines = SplitLines(TextSectioned) /\ Len(lines) = 4 /\ pc = "done"

----------------------------------------------------------------------------
(* C2 *)

\* C2: a key/value line processed after a header line (whatever the section
\* name, the empty name included) is stored inside the mapping of that
\* section, and the step adds or changes no top-level key.
C2_NestedUnderEveryHeader ==
    [][(/\ pc = "loop"
        /\ idx <= Len(lines)
        /\ LastHeader(idx - 1) > 0
        /\ IsKeyValueLine(Strip(lines[idx])))
       => LET l == Strip(lines[idx])
              s == SectionName(Strip(lines[LastHeader(idx - 1)]))
          IN /\ pc' = "loop"
             /\ DOMAIN parsed' = DOMAIN parsed
             /\ \A k \in DOMAIN parsed \ {s} : parsed'[k] = parsed[k]
             /\ s \in DOMAIN parsed'
             /\ parsed'[s].t = "map"
             /\ SplitKey(l) \in DOMAIN parsed'[s].v
             /\ parsed'[s].v[SplitKey(l)] = Coerce(SplitVal(l))]_vars

----------------------------------------------------------------------------
(* C3 *)

\* The value the last iteration stored, read where the loop writes it.
StoredByLastStep ==
    IF Truthy(current_section)
    THEN parsed[current_section.v].v[SplitKey(Processed)]
    ELSE parsed[SplitKey(Processed)]

\* C3: after every key/value line, flat or nested, the stored value is the
\* integer the text denotes when the trimmed text after the first colon is
\* made of decimal digits only, and that trimmed text as a string otherwise.
C3_StrictCoercion ==
    (idx > 1 /\ pc # "error" /\ IsKeyValueLine(Processed)) =>
        LET raw == SplitVal(Processed)
        IN IF OnlyDecimalDigits(raw)
           THEN StoredByLastStep = IntV(DecimalNumber(raw))
           ELSE StoredByLastStep = StrV(raw)

C3_Witness ==
    /\ lines = SplitLines(TextDetail)
    /\ pc = "done"
    /\ parsed[KeyTCP] = StrV(ValueDetail)

----------------------------------------------------------------------------
(* C4 *)

\* An entry key = x held at the top level or inside a section.
HoldsEntry(key, x) ==
    \/ key \in DOMAIN parsed /\ parsed[key] = x
    \/ \E s \in DOMAIN parsed :
          /\ parsed[s].t = "map"
          /\ key \in DOMAIN parsed[s].v
          /\ parsed[s].v[key] = x

\* C4: a line is a header only when it ends with a colon and holds no other
\* colon; every other line with a colon, one ending with a colon included,
\* yields the entry (text before the first colon, trimmed remainder).
C4_HeaderOnlyWithSingleColon ==
    (idx > 1 /\ pc # "error" /\ HasColon(Processed)) =>
        IF IsHeader(Processed) /\ ColonCount(Processed) = 1
        THEN /\ current_section = StrV(SectionName(Processed))
             /\ parsed[SectionName(Processed)] = MapV(EmptyDict)
        ELSE HoldsEntry(SplitKey(Processed), Coerce(SplitVal(Processed)))

----------------------------------------------------------------------------
(* C5 *)

\* C5: no exception leaves the parser, the pass goes on until it returns, and
\* while a section is open for writing its top-level entry is a mapping.
C5_NeverFails ==
    /\ pc \in {"loop", "done"}
    /\ exc = ""
    /\ idx <= Len(lines) + 1
    /\ (pc = "done" => idx = Len(lines) + 1)
    /\ Truthy(current_section) =>
          /\ current_section.v \in DOMAIN parsed
          /\ parsed[current_section.v].t = "map"

\* A key equal to its section's name was written inside that section after the
\* same name had been a top-level key.
C5_Witness ==
    /\ lines = SplitLines(TextKeyIsSection)
    /\ pc = "done"
    /\ <<"X">> \in DOMAIN parsed
    /\ parsed[<<"X">>].t = "map"
    /\ <<"X">> \in DOMAIN parsed[<<"X">>].v

----------------------------------------------------------------------------
(* C6 *)

\* Lines h+1..j form one scope when no header lies between them.
ScopeOf(m) == LastHeader(m)

SameScopeSameKey(m, n) ==
    /\ IsKeyValueLine(Strip(lines[m]))
    /\ IsKeyValueLine(Strip(lines[n]))
    /\ ScopeOf(m) = ScopeOf(n)
    /\ SplitKey(Strip(lines[m])) = SplitKey(Strip(lines[n]))

\* The last line of m's scope that carries m's key.
LastOfKey(m, upto) ==
    CHOOSE n \in m..upto :
        /\ SameScopeSameKey(m, n)
        /\ \A q \in (n + 1)..upto : ~SameScopeSameKey(m, q)

\* C6 as stated: in the returned mapping every scope (the top level, or the
\* section a header names) holds for a key that occurs on several of its lines
\* the value of the last of them.
C6_LastWinsInResultAsStated ==
    pc = "done" =>
        \A m \in 1..Len(lines) : \A n \in (m + 1)..Len(lines) :
            SameScopeSameKey(m, n) =>
                LET key == SplitKey(Strip(lines[m]))
                    last == Strip(lines[LastOfKey(m, Len(lines))])
                    h == ScopeOf(m)
                    scope == IF h = 0 THEN MapV(parsed)
                             ELSE parsed[SectionName(Strip(lines[h]))]
                IN /\ scope.t = "map"
                   /\ key \in DOMAIN scope.v
                   /\ scope.v[key] = Coerce(SplitVal(last))

\* C6 amended: until the next header line (so also in the returned mapping for
\* the lines after the last header) the mapping the lines of a scope are
\* written to - the section's mapping when the scope's header has a non-empty
\* name, the top level otherwise - holds for every key of the scope's lines the
\* value of the last line carrying it; a section's mapping holds nothing else.
C6_LastWinsUntilNextHeader ==
    pc # "error" =>
        LET j == idx - 1
            h == LastHeader(j)
            name == IF h = 0 THEN <<>> ELSE SectionName(Strip(lines[h]))
            target == IF name = <<>> THEN parsed ELSE parsed[name].v
            keyed == {m \in (h + 1)..j : IsKeyValueLine(Strip(lines[m]))}
        IN /\ \A m \in keyed :
                /\ SplitKey(Strip(lines[m])) \in DOMAIN target
                /\ target[SplitKey(Strip(lines[m]))]
                       = Coerce(SplitVal(Strip(lines[LastOfKey(m, j)])))
           /\ name # <<>> =>
                DOMAIN target = {SplitKey(Strip(lines[m])) : m \in keyed}

C6_Witness ==
    /\ lines = SplitLines(TextRepeated)
    /\ pc = "done"
    /\ SameScopeSameKey(4, 5)
    /\ Coerce(SplitVal(Strip(lines[4]))) # Coerce(SplitVal(Strip(lines[5])))
    /\ parsed[<<"S">>] = MapV(One(<<"k">>, IntV(7)))

----------------------------------------------------------------------------
(* parse_socket_output as a state machine: one step per loop iteration. *)

ParseOutputStep ==
    /\ pc = "loop"
    /\ idx <= Len(lines)
    /\ parsed' = OutputLine(parsed, lines[idx])
    /\ idx' = idx + 1
    /\ UNCHANGED <<lines, current_section, pc, exc, rvars>>

ParseOutputReturn ==
    /\ pc = "loop"
    /\ idx > Len(lines)
    /\ pc' = "done"
    /\ UNCHANGED <<lines, idx, parsed, current_section, exc, rvars>>

NextOutput == ParseOutputStep \/ ParseOutputReturn

SpecOutput == InitSummary /\ [][NextOutput]_vars

----------------------------------------------------------------------------
(* C7 *)

\* The untrimmed line the last loop iteration processed.
ProcessedRaw == lines[idx - 1]

\* Keys of the first j lines that the line pattern matches.
InputKeys(j) == {MatchKeyValue(lines[m]).key : m \in {n \in 1..j : MatchKeyValue(lines[n]).ok}}

KeyDetails == KeyTCP \o <<"_", "d", "e", "t", "a", "i", "l", "s">>

----------------------------------------------------------------------------
(* The parsers as functions of the whole text. *)

RECURSIVE OutputLinesFrom(_, _, _)
OutputLinesFrom(ls, k, d) ==
    IF k > Len(ls) THEN d ELSE OutputLinesFrom(ls, k + 1, OutputLine(d, ls[k]))

\* parse_socket_output(output)
parse_socket_output(output) == OutputLinesFrom(SplitLines(output), 1, EmptyDict)

RECURSIVE SummaryLinesFrom(_, _, _, _)
SummaryLinesFrom(ls, k, d, cur) ==
    IF k > Len(ls) THEN [parsed |-> d, exc |-> ""]
    ELSE LET r == SummaryLine(d, cur, ls[k])
         IN IF r.exc # "" THEN [parsed |-> r.parsed, exc |-> r.exc]
            ELSE SummaryLinesFrom(ls, k + 1, r.parsed, r.cur)

\* SocketMonitor._parse_summary(output)
parse_summary(output) == SummaryLinesFrom(SplitLines(output), 1, EmptyDict, NoneV)

----------------------------------------------------------------------------
(* The command runners: SocketMonitor.get_summary (info_sock.py:33-72) and   *)
(* main, get_socket_stats, execute_command, find_ss_binary                   *)
(* (di_extended_beta1.py:59-146, 202-243).                                   *)

\* DEFAULT_SS_PATH and the fallbacks of find_ss_binary, in search order.
CandidatePaths == <<"/usr/sbin/ss", "/bin/ss", "/usr/bin/ss">>

\* config.SS_PATH of info_sock.py
ConfigSSPath == "config.SS_PATH"

\* What a path is: missing, a file without execute permission, an executable
\* file the kernel refuses to run (exec format error), or a working program.
FileStates == {"absent", "noexec", "badformat", "ok"}

SUPPORTED_PLATFORMS == {"linux"}

Platforms == {"linux", "darwin"}

\* SocketType: member name -> value; ALL has the value None.
SocketTypeMembers == {"TCP", "UDP", "UNIX", "ALL"}

SocketTypeValue(member) ==
    CASE member = "TCP" -> "t"
      [] member = "UDP" -> "u"
      [] member = "UNIX" -> "x"
      [] member = "ALL" -> "None"

\* SocketType.get_types(): the values that are not None.
get_types == {SocketTypeValue(m) : m \in SocketTypeMembers} \ {"None"}

\* Values of -t/--type a user can type; "None" stands for an absent option.
TypeArguments == {"None", "t", "u", "x", "a", "tu", ""}

\* Texts a child can write to its standard output.
ChildOutputs == {TextSectioned, TextDetail, <<>>}

\* check_platform()
check_platform(plat) == plat \in SUPPORTED_PLATFORMS

\* find_ss_binary(): the first candidate that exists, "None" when none does.
find_ss_binary(files) ==
    LET found == {k \in 1..Len(CandidatePaths) : files[CandidatePaths[k]] # "absent"}
    IN IF found = {} THEN "None"
       ELSE CandidatePaths[CHOOSE k \in found : \A j \in found : k <= j]

\* shutil.which(config.SS_PATH): the path when it exists and is executable.
which(files, path) == files[path] \in {"badformat", "ok"}

\* Variant: the test "socket_type != SocketType.ALL" is left out.
BuildCmdWithoutAllTest(ss_path, st) ==
    IF st # "None"
    THEN <<ss_path, "-s", "-" \o SocketTypeValue(st)>>
    ELSE <<ss_path, "-s">>

\* cmd = [str(ss_path), "-s"]
\* if socket_type and socket_type != SocketType.ALL:
\*     cmd.extend([f"-{socket_type.value}"])
BuildCmd(ss_path, st) ==
    IF st # "None" /\ st # "ALL"
    THEN <<ss_path, "-s", "-" \o SocketTypeValue(st)>>
    ELSE <<ss_path, "-s">>

\* str(e) of the subprocess exceptions
ExceptionText(e) ==
    CASE e = "TimeoutExpired" -> "Command timed out after timeout seconds"
      [] e = "CalledProcessError" -> "Command returned non-zero exit status"
      [] OTHER -> e

\* subprocess.SubprocessError and its subclasses
SubprocessErrors == {"SubprocessError", "TimeoutExpired", "CalledProcessError"}

Returned(value, data) == [kind |-> "return", value |-> value, data |-> data]

Raised(e) == [kind |-> "raise", value |-> e, data |-> EmptyDict]

Exited(code) == [kind |-> "exit", value |-> code, data |-> EmptyDict]

InitRunner ==
    /\ lines = <<>>
    /\ idx = 1
    /\ parsed = EmptyDict
    /\ current_section = NoneV
    /\ pc = "idle"
    /\ exc = ""
    /\ prog \in {"get_summary", "main", "get_socket_stats"}
    /\ platform \in Platforms
    /\ \/ /\ prog = "get_summary"
          /\ fs \in [{ConfigSSPath} -> FileStates]
          /\ json_output \in BOOLEAN
          /\ arg_type = "None"
          /\ socket_type = "None"
          /\ rpc = "get_summary"
       \/ /\ prog = "main"
          /\ fs \in [{CandidatePaths[k] : k \in 1..Len(CandidatePaths)} -> FileStates]
          /\ json_output = FALSE
          /\ arg_type \in TypeArguments
          /\ socket_type = "None"
          /\ rpc = "main"
       \/ /\ prog = "get_socket_stats"
          /\ fs \in [{CandidatePaths[k] : k \in 1..Len(CandidatePaths)} -> FileStates]
          /\ json_output = FALSE
          /\ arg_type = "None"
          /\ socket_type \in SocketTypeMembers \cup {"None"}
          /\ rpc = "get_socket_stats"
    /\ cmd = <<>>
    /\ spawned = 0
    /\ child = "none"
    /\ returncode = 0
    /\ stdout = <<>>
    /\ timer = "idle"
    /\ runres = ""
    /\ result = NoResult

\* main, lines 236-239: argparse rejects a --type outside get_types() with
\* exit status 2; otherwise SocketType(args.type) if args.type else ALL.
MainParseArgs ==
    /\ rpc = "main"
    /\ IF arg_type # "None" /\ arg_type \notin get_types
       THEN /\ rpc' = "done"
            /\ result' = Exited("invalid choice")
            /\ UNCHANGED socket_type
       ELSE /\ rpc' = "get_socket_stats"
            /\ socket_type' =
                  IF arg_type \in {"None", ""} THEN "ALL"
                  ELSE CHOOSE m \in SocketTypeMembers : SocketTypeValue(m) = arg_type
            /\ UNCHANGED result
    /\ UNCHANGED <<pvars, prog, platform, fs, arg_type, json_output, cmd, spawned,
                   child, returncode, stdout, timer, runres>>

\* get_socket_stats, lines 117-128
GetSocketStatsPrepare ==
    /\ rpc = "get_socket_stats"
    /\ IF ~check_platform(platform)
       THEN /\ result' = Returned("Error: Unsupported platform", EmptyDict)
            /\ rpc' = IF prog = "main" THEN "print" ELSE "done"
            /\ UNCHANGED cmd
       ELSE IF find_ss_binary(fs) = "None"
            THEN /\ result' = Returned("Error: 'ss' command not found", EmptyDict)
                 /\ rpc' = IF prog = "main" THEN "print" ELSE "done"
                 /\ UNCHANGED cmd
            ELSE /\ cmd' = BuildCmd(find_ss_binary(fs), socket_type)
                 /\ rpc' = "run"
                 /\ UNCHANGED result
    /\ UNCHANGED <<pvars, prog, platform, fs, arg_type, socket_type, json_output,
                   spawned, child, returncode, stdout, timer, runres>>

\* get_summary, lines 45-51; the FileNotFoundError is logged at 70-72 and
\* raised again.
GetSummaryPrepare ==
    /\ rpc = "get_summary"
    /\ IF ~which(fs, ConfigSSPath)
       THEN /\ result' = Raised("FileNotFoundError")
            /\ rpc' = "done"
            /\ UNCHANGED cmd
       ELSE /\ cmd' = <<ConfigSSPath, "-s">>
            /\ rpc' = "run"
            /\ UNCHANGED result
    /\ UNCHANGED <<pvars, prog, platform, fs, arg_type, socket_type, json_output,
                   spawned, child, returncode, stdout, timer, runres>>

\* subprocess.run: Popen(cmd).  A file without execute permission raises
\* PermissionError, an unrunnable one OSError; neither leaves a child.
RunSpawn ==
    /\ rpc = "run"
    /\ IF fs[cmd[1]] = "ok"
       THEN /\ child' = "running"
            /\ spawned' = spawned + 1
            /\ timer' = "armed"
            /\ rpc' = "communicate"
            /\ UNCHANGED runres
       ELSE /\ runres' = CASE fs[cmd[1]] = "noexec" -> "PermissionError"
                           [] fs[cmd[1]] = "badformat" -> "OSError"
                           [] OTHER -> "FileNotFoundError"
            /\ rpc' = "run_ended"
            /\ UNCHANGED <<child, spawned, timer>>
    /\ UNCHANGED <<pvars, prog, platform, fs, arg_type, socket_type, json_output,
                   cmd, returncode, stdout, result>>

\* The child writes its output and exits on its own.
ChildExits ==
    /\ child = "running"
    /\ child' = "zombie"
    /\ returncode' \in {0, 1}
    /\ stdout' \in ChildOutputs
    /\ UNCHANGED <<pvars, prog, platform, fs, arg_type, socket_type, json_output,
                   rpc, cmd, spawned, timer, runres, result>>

\* subprocess.run: communicate() collects the output of the exited child and
\* reaps it; check=True turns a non-zero status into CalledProcessError.
RunCommunicate ==
    /\ rpc = "communicate"
    /\ child = "zombie"
    /\ child' = "reaped"
    /\ timer' = "idle"
    /\ runres' = IF returncode = 0 THEN "completed" ELSE "CalledProcessError"
    /\ rpc' = "run_ended"
    /\ UNCHANGED <<pvars, prog, platform, fs, arg_type, socket_type, json_output,
                   cmd, spawned, returncode, stdout, result>>

\* The timeout elapses while the child has not exited: communicate() raises
\* TimeoutExpired inside subprocess.run.
RunTimeoutExpires ==
    /\ rpc = "communicate"
    /\ child = "running"
    /\ timer = "armed"
    /\ timer' = "expired"
    /\ rpc' = "kill"
    /\ UNCHANGED <<pvars, prog, platform, fs, arg_type, socket_type, json_output,
                   cmd, spawned, child, returncode, stdout, runres, result>>

\* Variant: TimeoutExpired is raised without killing and reaping the child,
\* as Popen.communicate(timeout=...) alone does.
RunRaisesWithoutKill ==
    /\ rpc = "kill"
    /\ runres' = "TimeoutExpired"
    /\ rpc' = "run_ended"
    /\ UNCHANGED <<pvars, prog, platform, fs, arg_type, socket_type, json_output,
                   cmd, spawned, child, returncode, stdout, timer, result>>

\* subprocess.run on TimeoutExpired: process.kill(), process.wait(), raise.
RunKillAndWait ==
    /\ rpc = "kill"
    /\ child' = "reaped"
    /\ returncode' = IF child = "running" THEN -9 ELSE returncode
    /\ runres' = "TimeoutExpired"
    /\ rpc' = "run_ended"
    /\ UNCHANGED <<pvars, prog, platform, fs, arg_type, socket_type, json_output,
                   cmd, spawned, stdout, timer, result>>

\* parse_socket_output(output) for the trimmed output of each child text
StatsDetails == [out \in ChildOutputs |-> parse_socket_output(Strip(out))]

\* SocketMonitor._parse_summary(result.stdout) for each child text
SummaryDetails == [out \in ChildOutputs |-> parse_summary(out)]

\* execute_command, lines 72-83: (True, stdout.strip()) on success,
\* (False, str(e)) on a SubprocessError; any other exception propagates.
execute_command(res, out) ==
    IF res = "completed" THEN [raised |-> "", success |-> TRUE, output |-> Strip(out)]
    ELSE IF res \in SubprocessErrors
         THEN [raised |-> "", success |-> FALSE, output |-> ExceptionText(res)]
         ELSE [raised |-> res, success |-> FALSE, output |-> <<>>]

\* get_socket_stats, lines 131-146
GetSocketStatsFinish ==
    /\ rpc = "run_ended"
    /\ prog \in {"main", "get_socket_stats"}
    /\ LET r == execute_command(runres, stdout)
       IN IF r.raised # ""
          THEN /\ result' = Raised(r.raised)
               /\ rpc' = "done"
          ELSE /\ result' = IF ~r.success THEN Returned(r.output, EmptyDict)
                            ELSE Returned("SocketStats", StatsDetails[stdout])
               /\ rpc' = IF prog = "main" THEN "print" ELSE "done"
    /\ UNCHANGED <<pvars, prog, platform, fs, arg_type, socket_type, json_output,
                   cmd, spawned, child, returncode, stdout, timer, runres>>

\* main, line 243: print(format_output(stats, ...))
MainPrint ==
    /\ rpc = "print"
    /\ rpc' = "done"
    /\ UNCHANGED <<pvars, prog, platform, fs, arg_type, socket_type, json_output,
                   cmd, spawned, child, returncode, stdout, timer, runres, result>>

\* get_summary, lines 58-72: the parsed or trimmed output on success; every
\* exception is logged and raised again.
GetSummaryFinish ==
    /\ rpc = "run_ended"
    /\ prog = "get_summary"
    /\ result' =
          IF runres # "completed" THEN Raised(runres)
          ELSE IF json_output
               THEN IF SummaryDetails[stdout].exc # ""
                    THEN Raised(SummaryDetails[stdout].exc)
                    ELSE Returned("dict", SummaryDetails[stdout].parsed)
               ELSE Returned("str", Put(EmptyDict, <<>>, StrV(Strip(stdout))))
    /\ rpc' = "done"
    /\ UNCHANGED <<pvars, prog, platform, fs, arg_type, socket_type, json_output,
                   cmd, spawned, child, returncode, stdout, timer, runres>>

NextRunner ==
    \/ MainParseArgs
    \/ GetSocketStatsPrepare
    \/ GetSummaryPrepare
    \/ RunSpawn
    \/ ChildExits
    \/ RunCommunicate
    \/ RunTimeoutExpires
    \/ RunKillAndWait
    \/ GetSocketStatsFinish
    \/ MainPrint
    \/ GetSummaryFinish

SpecRunner == InitRunner /\ [][NextRunner]_vars

\* The steps of the calling thread, which runs on until the call ends or it
\* blocks in communicate(); the exit of the child and the expiry of the
\* timeout are the environment's.
ProgramStep ==
    \/ MainParseArgs
    \/ GetSocketStatsPrepare
    \/ GetSummaryPrepare
    \/ RunSpawn
    \/ RunCommunicate
    \/ RunKillAndWait
    \/ GetSocketStatsFinish
    \/ MainPrint
    \/ GetSummaryFinish

SpecRunnerFair == SpecRunner /\ WF_vars(ProgramStep)

----------------------------------------------------------------------------
(* C8 *)

CandidateSet == {CandidatePaths[k] : k \in 1..Len(CandidatePaths)}

AllowedCommands ==
    {<<path, "-s">> : path \in CandidateSet}
        \cup {<<path, "-s", f>> : path \in CandidateSet, f \in {"-t", "-u", "-x"}}

\* What runs through get_socket_stats: main and direct calls.
ThroughGetSocketStats == prog \in {"main", "get_socket_stats"}

----------------------------------------------------------------------------
(* C9 *)

\* C9: every call of get_socket_stats ends by returning a value, a SocketStats
\* object or an error message; no exception leaves it.
C9_AlwaysReturnsAValue ==
    (ThroughGetSocketStats /\ rpc = "done" /\ result.kind # "exit") =>
        result.kind = "return"

----------------------------------------------------------------------------
(* C10 *)

\* How a call that timed out ends: get_summary raises TimeoutExpired,
\* get_socket_stats returns the text of TimeoutExpired.
TimeoutFailure ==
    IF prog = "get_summary" THEN Raised("TimeoutExpired")
    ELSE Returned(ExceptionText("TimeoutExpired"), EmptyDict)

NonZeroExitFailure ==
    IF prog = "get_summary" THEN Raised("CalledProcessError")
    ELSE Returned(ExceptionText("CalledProcessError"), EmptyDict)

CallEnded == rpc \in {"print", "done"}

\* C10: a call whose timeout elapsed before the child exited ends with the
\* timeout failure, which no call without a timeout ends with and which
\* differs from the non-zero-exit failure; one child was spawned, and when
\* the call ends that child is terminated and reaped.
TimeoutLeavesNoChild ==
    /\ spawned <= 1
    /\ CallEnded => child \in {"none", "reaped"}
    /\ (CallEnded /\ timer = "expired") =>
          /\ result = TimeoutFailure
          /\ result # NonZeroExitFailure
          /\ spawned = 1
          /\ child = "reaped"
    /\ (CallEnded /\ timer # "expired") => result # TimeoutFailure

\* C10, with the ending itself: once the timeout has elapsed the call ends,
\* with the timeout failure and the child reaped.
C10_TimeoutLeavesNoChild ==
    /\ []TimeoutLeavesNoChild
    /\ (timer = "expired") ~>
          (rpc = "done" /\ child = "reaped" /\ spawned = 1 /\ result = TimeoutFailure)

C10_Witness ==
    /\ rpc = "done"
    /\ timer = "expired"
    /\ spawned = 1
    /\ child = "reaped"
    /\ result = TimeoutFailure

====
